---- MODULE Spec2Model ----
(***************************************************************************)
(* ListEndpointsPager (endpoint_service/pagers.py): a pager wraps a list   *)
(* method, a copy of the initial request and the initial response, and     *)
(* fetches further pages on demand from its generators `pages` and         *)
(* `__iter__`.  The model keeps Python's object semantics for the request  *)
(* (a heap of request objects addressed by reference) and the suspended    *)
(* position of every generator.                                            *)
(***************************************************************************)
EXTENDS Naturals, Sequences, FiniteSets

\* ------------------------------------------------------------- bounds
\* longest `endpoints` list of a response
MaxLen == 2
\* most calls of the list method one pager makes (token chains may cycle)
MaxCalls == 3
\* cap on the objects of one kind (channels, stubs of one method) a transport makes
MaxObjects == 2

\* ------------------------------------------------------------- data
\* page tokens the server issues; "" is the empty token
Tokens == {"a", "b"}
Parents == {"p1", "p2"}
Pagers == {1, 2}
Gens == {1, 2}
\* reference of the caller's request object; pager c's own copy is object c
CallerRef == 0
Refs == {CallerRef} \cup Pagers

RECURSIVE Desc(_)
\* the item list <<n, ..., 2, 1>>
Desc(n) == IF n = 0 THEN <<>> ELSE <<n>> \o Desc(n - 1)

ItemLists == {Desc(n) : n \in 0..MaxLen}
Responses == [endpoints : ItemLists, next_page_token : Tokens \cup {""}]
Requests == [parent : Parents, page_token : Tokens \cup {""}]
\* what one call of the list method produces: a response, or an error raised
Outcomes == [error : {FALSE}, response : Responses]
              \cup {[error |-> TRUE, response |-> [endpoints |-> <<>>, next_page_token |-> ""]]}

\* the RPC properties of the transport
Methods == {"create_endpoint", "get_endpoint", "list_endpoints", "update_endpoint",
            "delete_endpoint", "deploy_model", "undeploy_model"}
\* channel objects: none (None, or the attribute absent), the one the caller
\* supplied, the n-th one create_channel returned
NoChannel == [origin |-> "none", n |-> 0]
SuppliedChannel == [origin |-> "supplied", n |-> 0]
\* the credentials argument: None (the default) or a credentials object
Credentials == {"None", "creds"}
Hosts == {"aiplatform.googleapis.com"}
NoStub == [path |-> "", channel |-> NoChannel, n |-> 0]
NoClient == [channel |-> NoChannel]

\* attribute not set yet (the object does not exist)
NoResponse == [endpoints |-> <<>>, next_page_token |-> "<unset>"]
NoRequest == [parent |-> "<unset>", page_token |-> ""]
\* `began` records how many calls its pager had made when the body first ran
NoGen == [pager |-> 0, kind |-> "none", pc |-> "none", page |-> NoResponse, idx |-> 0,
          began |-> 0]

VARIABLES
    server,     \* the list method: page_token of the request -> outcome
    initial,    \* the response the caller obtained before building pagers
    heap,       \* request objects: reference -> value
    _request,   \* pager -> reference of its request object
    _response,  \* pager -> retained response
    gen,        \* generator objects: pager, kind, position
    running,    \* generator executing a next() call, 0 when none
    out,        \* generator -> what it has yielded so far
    asked,      \* generator -> number of next() calls made on it
    calls,      \* pager -> log of its calls of the list method
    ctor,       \* pager -> value of the caller's request when it was built
    \* EndpointServiceGrpcTransport (endpoint_service/transports/grpc.py)
    args,               \* the arguments the transport was built with
    base,               \* the arguments the base constructor was called with
    _grpc_channel,      \* the cached channel, NoChannel while the attribute is absent
    _stubs,             \* method name -> cached stub
    operations_client,  \* the cached operations client (__dict__ entry)
    created,            \* log of the channels create_channel returned
    unary,              \* the unary_unary calls made, each with its ordinal for its property
    channels,           \* every channel an evaluation of grpc_channel returned
    stubsSeen,          \* method name -> every stub its property returned
    hits                \* properties that have been served from their cache

tvars == <<args, base, _grpc_channel, _stubs, operations_client,
           created, unary, channels, stubsSeen, hits>>

vars == <<server, initial, heap, _request, _response, gen, running, out, asked, calls, ctor,
          tvars>>

\* ------------------------------------------------------------- helpers
\* (bug) self._request = request: the pager keeps the caller's object
RequestAlias(c, r) == r

\* ListEndpointsRequest(request): a new message object holding a copy
RequestCopy(c, r) == c

\* self._method(self._request): the method sees the request's current value
_method(req) == server[req.page_token]

\* (bug) the error is swallowed and the empty result is taken as a page
RaisesNever(o) == FALSE

\* no try/except around the call: an error of the method leaves the generator
Raises(o) == o.error

\* (bug) `while True`: the token is not tested
HasNextPageAlways(c) == TRUE

\* (bug) a page limit: no fetch after the second one
HasNextPageLimited(c) == _response[c].next_page_token # "" /\ Len(calls[c]) < 2

\* (bug) the loop also stops at a page without items
HasNextPageAndItems(c) ==
    _response[c].next_page_token # "" /\ _response[c].endpoints # <<>>

\* `while self._response.next_page_token`: a non-empty token is true
HasNextPage(c) == _response[c].next_page_token # ""

\* (bug) the token of the constructor's response argument, not of self._response
NextTokenOfInitial(c) == initial.next_page_token

\* the token written into self._request.page_token before a fetch
NextToken(c) == _response[c].next_page_token

\* (bug) the page_token is set on a new request: the other fields are lost
SetOnNewRequest(req, tok) == [parent |-> "", page_token |-> tok]

\* self._request.page_token = ...: the one field of the request written
SetPageToken(req, tok) == [req EXCEPT !.page_token = tok]

\* (bug) every sequence starts again from the constructor's response
FirstPageInitial(c) == initial

\* `yield self._response`: the response retained when the body starts to run
FirstPage(c) == _response[c]

\* (bug) the first `yield self._response` is missing
AtStartNever(pc) == FALSE

\* a generator that has not run yet starts at `yield self._response`
AtStart(pc) == pc \in {"start", "entered"}

RECURSIVE Reverse(_)
Reverse(s) == IF s = <<>> THEN <<>> ELSE Append(Reverse(Tail(s)), Head(s))

\* (bug) the items of a page come out last first
ItemsReversed(page) == Reverse(page.endpoints)

\* page.endpoints
ItemsOf(page) == page.endpoints

\* __getattr__: forward to the retained response
__getattr__(c, name) ==
    IF name = "endpoints" THEN _response[c].endpoints ELSE _response[c].next_page_token

\* (bug) the result is kept in a local variable, self._response is not assigned
StoreNothing(c, resp) == _response

\* (bug) _response is a class attribute: every pager built so far sees it
StoreShared(c, resp) == [b \in Pagers |-> IF _response[b] = NoResponse THEN NoResponse ELSE resp]

\* the retained response after a successful fetch
StoreResponse(c, resp) == [_response EXCEPT ![c] = resp]

Constructed(c) == _response[c] # NoResponse

\* ------------------------------------------------------------- initial state
\* no pager has been built
NoPagerYet ==
    /\ heap = [r \in Refs |-> IF r = CallerRef
                              THEN [parent |-> "p1", page_token |-> ""]
                              ELSE NoRequest]
    /\ _request = [c \in Pagers |-> c]
    /\ _response = [c \in Pagers |-> NoResponse]
    /\ gen = [g \in Gens |-> NoGen]
    /\ running = 0
    /\ out = [g \in Gens |-> <<>>]
    /\ asked = [g \in Gens |-> 0]
    /\ calls = [c \in Pagers |-> <<>>]
    /\ ctor = [c \in Pagers |-> NoRequest]

\* no transport has been built
NoTransportYet ==
    /\ args = [built |-> FALSE, host |-> "", credentials |-> "None", channel |-> NoChannel]
    /\ base = [host |-> "", credentials |-> "None"]
    /\ _grpc_channel = NoChannel
    /\ _stubs = [m \in Methods |-> NoStub]
    /\ operations_client = NoClient
    /\ created = <<>>
    /\ unary = {}
    /\ channels = {}
    /\ stubsSeen = [m \in Methods |-> {}]
    /\ hits = {}

Init ==
    /\ server \in [Tokens \cup {""} -> Outcomes]
    /\ ~server[""].error
    \* the caller's own first call, made with the empty page_token
    /\ initial = server[""].response
    /\ NoPagerYet
    /\ NoTransportYet

\* ------------------------------------------------------------- actions
\* the caller changes its own request object after it built the pager
CallerMutate ==
    /\ running = 0
    /\ Constructed(1)
    /\ heap[CallerRef].parent = "p1"
    /\ heap' = [heap EXCEPT ![CallerRef] = [parent |-> "p2", page_token |-> "b"]]
    /\ UNCHANGED <<tvars, server, initial, _request, _response, gen, running, out, asked, calls, ctor>>

\* ListEndpointsPager.__init__(method, request, response)
Construct(c) ==
    /\ running = 0
    /\ ~Constructed(c)
    /\ \A b \in Pagers : b < c => Constructed(b)
    /\ LET ref == RequestCopy(c, CallerRef) IN
        /\ _request' = [_request EXCEPT ![c] = ref]
        /\ heap' = [heap EXCEPT ![ref] = heap[CallerRef]]
    /\ _response' = [_response EXCEPT ![c] = initial]
    /\ ctor' = [ctor EXCEPT ![c] = heap[CallerRef]]
    /\ UNCHANGED <<tvars, server, initial, gen, running, out, asked, calls>>

\* pager.pages: the property returns a new generator, nothing of its body runs
GetPages(c, g) ==
    /\ running = 0
    /\ Constructed(c)
    /\ gen[g].pc = "none"
    /\ gen' = [gen EXCEPT ![g] = [NoGen EXCEPT !.pager = c, !.kind = "pages", !.pc = "start"]]
    /\ UNCHANGED <<tvars, server, initial, heap, _request, _response, running, out, asked, calls, ctor>>

\* iter(pager): __iter__ returns a new generator, nothing of its body runs
GetIter(c, g) ==
    /\ running = 0
    /\ Constructed(c)
    /\ gen[g].pc = "none"
    /\ gen' = [gen EXCEPT ![g] = [NoGen EXCEPT !.pager = c, !.kind = "items", !.pc = "start"]]
    /\ UNCHANGED <<tvars, server, initial, heap, _request, _response, running, out, asked, calls, ctor>>

\* One resumption of the body of `pages` for pager c by a generator at pc, up
\* to its next yield (resPc "suspended", resPage the page yielded), its return
\* ("done") or the error of the list method ("failed").
PagesResume(c, pc, resPc, resPage) ==
    IF AtStart(pc)
    THEN \* yield self._response
        /\ resPc = "suspended"
        /\ resPage = FirstPage(c)
        /\ UNCHANGED <<heap, _response, calls>>
    ELSE IF ~HasNextPage(c)
    THEN \* the while condition is false: the generator returns
        /\ resPc = "done"
        /\ resPage = NoResponse
        /\ UNCHANGED <<heap, _response, calls>>
    ELSE
        /\ Len(calls[c]) < MaxCalls
        /\ heap' = [heap EXCEPT ![_request[c]] = SetPageToken(@, NextToken(c))]
        /\ LET o == _method(heap'[_request[c]]) IN
            /\ calls' = [calls EXCEPT ![c] = Append(@,
                    [request |-> heap'[_request[c]], retained |-> _response[c], outcome |-> o])]
            /\ IF Raises(o)
               THEN /\ resPc = "failed"
                    /\ resPage = NoResponse
                    /\ UNCHANGED _response
               ELSE /\ resPc = "suspended"
                    /\ resPage = o.response
                    /\ _response' = StoreResponse(c, o.response)

\* next() on a generator of `pages`
PageNext(g) ==
    /\ running = 0
    /\ gen[g].kind = "pages"
    /\ gen[g].pc \in {"start", "suspended"}
    /\ asked' = [asked EXCEPT ![g] = @ + 1]
    /\ \E resPc \in {"suspended", "done", "failed"}, resPage \in Responses \cup {NoResponse} :
        /\ PagesResume(gen[g].pager, gen[g].pc, resPc, resPage)
        /\ gen' = [gen EXCEPT ![g].pc = resPc,
                              ![g].began = IF gen[g].pc = "start"
                                           THEN Len(calls[gen[g].pager]) ELSE @]
        /\ out' = [out EXCEPT ![g] = IF resPc = "suspended" THEN Append(@, resPage) ELSE @]
    /\ UNCHANGED <<tvars, server, initial, _request, running, ctor>>

\* next() on a generator of __iter__: the consumer asks for one item.  The body
\* may run any number of loop turns before it yields (empty pages), so each
\* turn is a step (ItemStep) and `running` keeps every other operation out
\* until the call returns.
ItemNext(g) ==
    /\ running = 0
    /\ gen[g].kind = "items"
    /\ gen[g].pc \in {"start", "suspended"}
    /\ asked' = [asked EXCEPT ![g] = @ + 1]
    /\ running' = g
    /\ gen' = [gen EXCEPT ![g].pc = IF @ = "start" THEN "entered" ELSE "running",
                          ![g].began = IF gen[g].pc = "start"
                                       THEN Len(calls[gen[g].pager]) ELSE @]
    /\ UNCHANGED <<tvars, server, initial, heap, _request, _response, out, calls, ctor>>

\* one turn of `for page in self.pages: yield from page.endpoints`
ItemStep(g) ==
    /\ running = g
    /\ IF gen[g].pc = "running" /\ gen[g].idx < Len(ItemsOf(gen[g].page))
       THEN \* yield from: the next item of the current page
            /\ out' = [out EXCEPT ![g] = Append(@, ItemsOf(gen[g].page)[gen[g].idx + 1])]
            /\ gen' = [gen EXCEPT ![g].idx = @ + 1, ![g].pc = "suspended"]
            /\ running' = 0
            /\ UNCHANGED <<heap, _response, calls>>
       ELSE \* the for loop asks self.pages for the next page
            \E resPc \in {"suspended", "done", "failed"}, resPage \in Responses \cup {NoResponse} :
                /\ PagesResume(gen[g].pager, gen[g].pc, resPc, resPage)
                /\ gen' = [gen EXCEPT ![g].pc = IF resPc = "suspended" THEN "running" ELSE resPc,
                                      ![g].page = resPage,
                                      ![g].idx = 0]
                /\ running' = IF resPc = "suspended" THEN g ELSE 0
                /\ UNCHANGED out
    /\ UNCHANGED <<tvars, server, initial, _request, asked, ctor>>

\* one pager and one consumer of it; the caller keeps its own request object
Next ==
    \/ CallerMutate
    \/ Construct(1)
    \/ GetPages(1, 1)
    \/ GetIter(1, 1)
    \/ PageNext(1)
    \/ ItemNext(1)
    \/ ItemStep(1)

Spec == Init /\ [][Next]_vars

\* two pagers built from the same caller request object and the same initial
\* response object, generator c on pager c, steps interleaved in any order
NextPair ==
    \/ \E c \in Pagers : Construct(c)
    \/ \E c \in Pagers : GetPages(c, c)
    \/ \E c \in Pagers : GetIter(c, c)
    \/ \E g \in Gens : PageNext(g)
    \/ \E g \in Gens : ItemNext(g)
    \/ \E g \in Gens : ItemStep(g)

SpecPair == Init /\ [][NextPair]_vars

\* ------------------------------------------------------------- chain of pages
\* What the server holds, read off `server` alone: the pages reached from resp
\* by following next_page_token, at most n fetches, up to the last page, the
\* page before a failing fetch, or the n-th fetch.
RECURSIVE Walk(_, _)
Walk(resp, n) ==
    IF n = 0 \/ resp.next_page_token = "" \/ server[resp.next_page_token].error
    THEN <<resp>>
    ELSE <<resp>> \o Walk(server[resp.next_page_token].response, n - 1)

\* how the chain from resp ends: "done" at an empty token, "failed" at a
\* failing fetch, "more" when it goes on after n fetches
RECURSIVE ChainEnd(_, _)
ChainEnd(resp, n) ==
    IF resp.next_page_token = "" THEN "done"
    ELSE IF server[resp.next_page_token].error THEN "failed"
    ELSE IF n = 0 THEN "more"
    ELSE ChainEnd(server[resp.next_page_token].response, n - 1)

RECURSIVE Flatten(_)
Flatten(pages) ==
    IF pages = <<>> THEN <<>> ELSE Head(pages).endpoints \o Flatten(Tail(pages))

IsPrefix(s, t) == Len(s) <= Len(t) /\ SubSeq(t, 1, Len(s)) = s

Chain == Walk(initial, MaxCalls)

\* what a generator of kind k yields when it consumes the pages ps
Yielded(k, ps) == IF k = "pages" THEN ps ELSE Flatten(ps)

Live == {g \in Gens : gen[g].pc # "none"}

\* ------------------------------------------------------------- claims
\* C1: over a finite chain P1..Pk ending in an empty token, a generator of a
\* fresh pager that has run to its end has yielded exactly P1..Pk (pages), or
\* the concatenation of their items in page order (items), and the list
\* method has been called exactly k-1 times.
C1_FullConsumption ==
    \A g \in Live : gen[g].pc = "done" =>
        /\ ChainEnd(initial, MaxCalls) = "done"
        /\ out[g] = Yielded(gen[g].kind, Chain)
        /\ Len(calls[gen[g].pager]) = Len(Chain) - 1

\* a three-page chain consumed item by item to its end
C1_Witness ==
    /\ gen[1].pc = "done"
    /\ gen[1].kind = "items"
    /\ Len(calls[1]) = 2
    /\ Len(out[1]) >= 3

\* C2: when the initial response has an empty next_page_token and N items,
\* the item sequence yields those N items in order and ends without error,
\* and the list method is never called.
C2_SinglePage ==
    initial.next_page_token = "" =>
        \A g \in Live :
            /\ calls[gen[g].pager] = <<>>
            /\ gen[g].pc # "failed"
            /\ gen[g].kind = "items" => IsPrefix(out[g], initial.endpoints)
            /\ (gen[g].kind = "items" /\ gen[g].pc = "done") => out[g] = initial.endpoints

C2_Witness ==
    /\ initial.next_page_token = ""
    /\ gen[1].kind = "items"
    /\ gen[1].pc = "done"
    /\ Len(out[1]) = 2

\* C3: at every call of the list method the request's page_token is the
\* next_page_token of the response retained just before the call, and that
\* response is the one the previous call returned (the initial one at the
\* first call).
C3_TokenThreading ==
    \A c \in Pagers : \A i \in DOMAIN calls[c] :
        /\ calls[c][i].request.page_token = calls[c][i].retained.next_page_token
        /\ calls[c][i].retained = IF i = 1 THEN initial ELSE calls[c][i - 1].outcome.response

\* two calls in a row carrying different tokens
C3_Witness ==
    /\ Len(calls[1]) >= 2
    /\ calls[1][1].request.page_token # calls[1][2].request.page_token

\* the response of the last call that returned one; the constructor's before
RECURSIVE LastReceived(_, _)
LastReceived(log, first) ==
    IF log = <<>> THEN first
    ELSE IF log[Len(log)].outcome.error THEN LastReceived(SubSeq(log, 1, Len(log) - 1), first)
    ELSE log[Len(log)].outcome.response

AttrNames == {"endpoints", "next_page_token"}

\* C4: a lookup of a response field on the pager returns the value held by
\* the most recently received response: the constructor's before any fetch,
\* the (j+1)-th page after the j-th successful fetch.
C4_AttributeForwarding ==
    \A c \in Pagers : _response[c] # NoResponse =>
        /\ \A name \in AttrNames :
            __getattr__(c, name) =
                IF name = "endpoints" THEN LastReceived(calls[c], initial).endpoints
                ELSE LastReceived(calls[c], initial).next_page_token
        /\ \A j \in 1..Len(calls[c]) :
            (\A i \in 1..j : ~calls[c][i].outcome.error) /\ j = Len(calls[c])
                => _response[c] = Chain[j + 1]

\* after two fetches the lookup gives the third page's values, not the first's
C4_Witness ==
    /\ Len(calls[1]) = 2
    /\ ~calls[1][2].outcome.error
    /\ __getattr__(1, "endpoints") # initial.endpoints
    /\ __getattr__(1, "endpoints") # calls[1][1].outcome.response.endpoints

\* C5: when the list method fails during the fetch of page k+1 the consumer
\* has received exactly pages 1..k (all their items, in order) and then the
\* failure; nothing of the failed fetch is yielded and the failing token was
\* passed to the method exactly once.  Over a chain that fails, the consumer
\* never receives more than pages 1..k and never sees a clean end.
C5_FailurePropagation ==
    /\ ChainEnd(initial, MaxCalls) = "failed" =>
        \A g \in Live :
            /\ IsPrefix(out[g], Yielded(gen[g].kind, Chain))
            /\ gen[g].pc # "done"
            /\ Cardinality({i \in DOMAIN calls[gen[g].pager] :
                                calls[gen[g].pager][i].outcome.error}) <= 1
    /\ \A g \in Live : gen[g].pc = "failed" =>
        LET log == calls[gen[g].pager] IN
        /\ ChainEnd(initial, MaxCalls) = "failed"
        /\ out[g] = Yielded(gen[g].kind, Chain)
        /\ Len(log) = Len(Chain)
        /\ log[Len(log)].outcome.error
        /\ log[Len(log)].request.page_token = Chain[Len(Chain)].next_page_token
        /\ \A i \in 1..(Len(log) - 1) :
            /\ ~log[i].outcome.error
            /\ log[i].request.page_token # log[Len(log)].request.page_token

\* the third fetch fails after two pages with items were consumed
C5_Witness ==
    /\ gen[1].pc = "failed"
    /\ gen[1].kind = "items"
    /\ Len(calls[1]) = 2
    /\ Len(out[1]) >= 3

\* C6: the pager works on its own copy of the request: (a) every request the
\* list method receives, and the pager's request itself, has the parent the
\* caller's request had when the pager was built, whatever the caller wrote
\* since; (b) the caller's object holds only what the caller wrote into it,
\* never a page_token written by the pager.
C6_RequestIsolation ==
    /\ \A c \in Pagers : _response[c] # NoResponse =>
        /\ heap[_request[c]].parent = ctor[c].parent
        /\ \A i \in DOMAIN calls[c] : calls[c][i].request.parent = ctor[c].parent
    /\ heap[CallerRef] \in {[parent |-> "p1", page_token |-> ""],
                            [parent |-> "p2", page_token |-> "b"]}

\* the caller has rewritten its request and the pager has fetched with token "a"
C6_Witness ==
    /\ heap[CallerRef] = [parent |-> "p2", page_token |-> "b"]
    /\ ctor[1].parent = "p1"
    /\ Len(calls[1]) >= 1
    /\ calls[1][Len(calls[1])].request = [parent |-> "p1", page_token |-> "a"]

\* C7: building a pager and obtaining a sequence call nothing: no call is made
\* before the first next(); a generator of pages has made at most
\* (pages asked for) - 1 calls; a generator of items fetches page i+1 only
\* once every item of pages 1..i has been yielded.
C7_Laziness ==
    /\ \A c \in Pagers :
        (\A g \in Live : gen[g].pager = c => asked[g] = 0) => calls[c] = <<>>
    /\ \A g \in Live : gen[g].kind = "pages" =>
        Len(calls[gen[g].pager]) <= IF asked[g] = 0 THEN 0 ELSE asked[g] - 1
    /\ \A g \in Live : gen[g].kind = "items" =>
        Len(out[g]) >= Len(Flatten(SubSeq(Chain, 1, Len(calls[gen[g].pager]))))

\* the third item asked for, after a first page of two, starts the first fetch
C7_Witness ==
    /\ gen[1].kind = "items"
    /\ Len(initial.endpoints) = 2
    /\ asked[1] = 3
    /\ Len(calls[1]) = 1
    /\ running = 1

\* the list method returns a non-empty next_page_token on every call
Endless ==
    /\ initial.next_page_token # ""
    /\ \A t \in Tokens : ~server[t].error /\ server[t].response.next_page_token # ""

\* C8: over a token chain that never ends no sequence reaches its end; a
\* consumer of pages that holds K pages has caused exactly K-1 calls and can
\* ask for the next page (MaxCalls is the model's cap, not the pager's).
C8_UnboundedChain ==
    Endless => \A g \in Live :
        /\ gen[g].pc \notin {"done", "failed"}
        /\ gen[g].kind = "pages" =>
            /\ gen[g].pc = "suspended" => Len(calls[gen[g].pager]) = Len(out[g]) - 1
            /\ Len(calls[gen[g].pager]) < MaxCalls => ENABLED PageNext(g)

\* as many pages as the cap lets through, and still not exhausted
C8_Witness ==
    /\ Endless
    /\ gen[1].kind = "pages"
    /\ gen[1].pc = "suspended"
    /\ Len(out[1]) = MaxCalls + 1

\* C9: two pagers built from the same request and response and driven by the
\* same deterministic method, each consumed the same number of steps by the
\* same kind of generator, have yielded the same sequence, logged the same
\* calls and are at the same position.
C9_DeterministicReplay ==
    (/\ gen[1].kind # "none"
     /\ gen[1].kind = gen[2].kind
     /\ ctor[1] = ctor[2]
     /\ running = 0) =>
        /\ IsPrefix(out[1], out[2]) \/ IsPrefix(out[2], out[1])
        /\ IsPrefix(calls[1], calls[2]) \/ IsPrefix(calls[2], calls[1])
        /\ asked[1] = asked[2] =>
            /\ out[1] = out[2]
            /\ calls[1] = calls[2]
            /\ gen[1].pc = gen[2].pc

\* both page sequences three pages in
C9_Witness ==
    /\ gen[1].kind = "pages" /\ gen[2].kind = "pages"
    /\ asked[1] = 3 /\ asked[2] = 3
    /\ Len(calls[1]) = 2 /\ Len(calls[2]) = 2
    /\ calls[1][1].request.page_token # calls[1][2].request.page_token

\* C10: two pagers built from the same caller request object and the same
\* initial response, stepped in any interleaving: each generator yields what
\* it yields alone (a prefix of the server's chain, the whole of it at its
\* end), and each pager's request page_token and retained response are those
\* of its own last call, whatever the other pager fetched.
C10_IndependentCursors ==
    /\ \A g \in Live :
        /\ IsPrefix(out[g], Yielded(gen[g].kind, Chain))
        /\ gen[g].pc = "done" => out[g] = Yielded(gen[g].kind, Chain)
    /\ \A c \in Pagers : _response[c] # NoResponse =>
        /\ heap[_request[c]].page_token =
              IF calls[c] = <<>> THEN ctor[c].page_token
              ELSE calls[c][Len(calls[c])].request.page_token
        /\ _response[c] = LastReceived(calls[c], initial)

\* the two pagers at different pages of the chain
C10_Witness ==
    /\ Len(calls[1]) = 2
    /\ Len(calls[2]) = 1
    /\ heap[_request[1]].page_token # heap[_request[2]].page_token
    /\ _response[1] # _response[2]

\* the fields of a request other than page_token
OtherFields(r) == [parent |-> r.parent]

\* C13: across any number of fetches the pager's request, and every request
\* the list method received, has the fields other than page_token that the
\* caller's request had at construction; no step of a built pager changes them.
C13_OnlyPageToken ==
    /\ [](\A c \in Pagers : _response[c] # NoResponse =>
            /\ OtherFields(heap[_request[c]]) = OtherFields(ctor[c])
            /\ \A i \in DOMAIN calls[c] :
                OtherFields(calls[c][i].request) = OtherFields(ctor[c]))
    /\ [][\A c \in Pagers : _response[c] # NoResponse =>
            OtherFields(heap'[_request'[c]]) = OtherFields(heap[_request[c]])]_vars

\* two fetches with different tokens, same parent, after the caller's rewrite
C13_Witness ==
    /\ Len(calls[1]) = 2
    /\ calls[1][1].request.page_token # calls[1][2].request.page_token
    /\ calls[1][1].request.parent = "p1" /\ calls[1][2].request.parent = "p1"
    /\ heap[_request[1]].parent = "p1"
    /\ heap[CallerRef].parent = "p2"

\* C16: a page without items but with a token does not end the item
\* sequence: every next() that returns yields exactly one item, however many
\* empty pages it had to pass, and the sequence ends only on a page whose
\* next_page_token is empty.
C16_EmptyPageGoesOn ==
    \A g \in Live : gen[g].kind = "items" =>
        /\ gen[g].pc = "suspended" =>
            /\ asked[g] = Len(out[g])
            /\ gen[g].idx >= 1
        /\ gen[g].pc \in {"done", "failed"} => asked[g] = Len(out[g]) + 1
        /\ gen[g].pc = "done" =>
            /\ _response[gen[g].pager].next_page_token = ""
            /\ gen[g].page = NoResponse

\* an empty second page with a token, then a third page with items, then the end
C16_Witness ==
    /\ gen[1].kind = "items"
    /\ gen[1].pc = "done"
    /\ Len(calls[1]) = 2
    /\ calls[1][1].outcome.response.endpoints = <<>>
    /\ calls[1][1].outcome.response.next_page_token # ""
    /\ Len(calls[1][2].outcome.response.endpoints) = 2
    /\ Len(out[1]) = Len(initial.endpoints) + 2
    /\ asked[1] = Len(initial.endpoints) + 3

\* ------------------------------------------------------------- shared pager
\* one pager and two generators of it, obtained and advanced in any order by
\* one thread; generator 2 is the one obtained second, and at most one of the
\* two is an item generator
NextShared ==
    \/ Construct(1)
    \/ \E g \in Gens : (\A h \in Gens : h < g => gen[h].pc # "none") /\ GetPages(1, g)
    \/ \E g \in Gens : (\A h \in Gens : h < g => gen[h].pc # "none" /\ gen[h].kind = "pages")
                            /\ GetIter(1, g)
    \/ \E g \in Gens : PageNext(g)
    \/ \E g \in Gens : ItemNext(g)
    \/ \E g \in Gens : ItemStep(g)

SpecShared == Init /\ [][NextShared]_vars

\* the response a pager retained after the first n calls of its log
RetainedAfter(c, n) == LastReceived(SubSeq(calls[c], 1, n), initial)

\* the response retained when the body of generator g first ran
StartPage(g) == RetainedAfter(gen[g].pager, gen[g].began)

Begun == {g \in Live : gen[g].pc # "start"}

\* one of s, t is the beginning of the other
Along(s, t) == IsPrefix(s, t) \/ IsPrefix(t, s)

\* the next() calls made on the page generators in G of pager c, less the
\* first one of each
RECURSIVE CallsAllowed(_, _)
CallsAllowed(c, G) ==
    IF G = {} THEN 0
    ELSE LET g == CHOOSE x \in G : TRUE IN
         (IF gen[g].pager = c /\ gen[g].kind = "pages" /\ asked[g] >= 1
          THEN asked[g] - 1 ELSE 0) + CallsAllowed(c, G \ {g})

\* C14: page 1 is never fetched again: no call carries an empty page_token;
\* a generator that starts on a pager that has not fetched yet yields the
\* constructor's response first, with no call made for it; and the first
\* call is made only after some generator started that way.
C14_FirstPageNotRefetched ==
    /\ \A c \in Pagers : \A i \in DOMAIN calls[c] : calls[c][i].request.page_token # ""
    /\ \A g \in Begun : gen[g].began = 0 =>
        /\ (gen[g].kind = "pages" /\ out[g] # <<>>) => out[g][1] = initial
        /\ gen[g].kind = "items" => Along(out[g], initial.endpoints)
        /\ (asked[g] = 1 /\ gen[g].kind = "pages") =>
                out[g] = <<initial>> /\ gen[g].pc = "suspended"
    /\ \A c \in Pagers : calls[c] # <<>> =>
        \E g \in Begun : gen[g].pager = c /\ gen[g].began = 0
    /\ \A c \in Pagers : (\A g \in Begun : gen[g].kind = "pages") =>
        Len(calls[c]) <= CallsAllowed(c, Gens)

\* two page sequences started on the fresh pager, two fetches later
C14_Witness ==
    /\ gen[1].kind = "pages" /\ gen[2].kind = "pages"
    /\ gen[1].began = 0 /\ gen[2].began = 0
    /\ out[1] # <<>> /\ out[2] # <<>>
    /\ out[1][1] = initial /\ out[2][1] = initial
    /\ Len(calls[1]) = 2

\* C15: a sequence started on a pager that has fetched further pages begins
\* with the response retained at that moment, not with page 1, and goes on
\* from that response's token; started on a pager whose retained response has
\* an empty token (after a complete iteration) it yields only that last page,
\* or its items, and no call is made.
C15_NonRestartable ==
    \A g \in Begun :
        LET c == gen[g].pager
            p == StartPage(g) IN
        /\ (gen[g].kind = "pages" /\ out[g] # <<>>) => out[g][1] = p
        /\ gen[g].kind = "items" => Along(out[g], p.endpoints)
        /\ Len(calls[c]) > gen[g].began =>
                calls[c][gen[g].began + 1].request.page_token = p.next_page_token
        /\ p.next_page_token = "" =>
            /\ Len(calls[c]) = gen[g].began
            /\ gen[g].pc # "failed"
            /\ IsPrefix(out[g], Yielded(gen[g].kind, <<p>>))
            /\ gen[g].pc = "done" => out[g] = Yielded(gen[g].kind, <<p>>)

\* a second iteration after a complete one over three pages: the last page only
C15_Witness ==
    /\ gen[1].pc = "done"
    /\ Len(out[1]) >= 3
    /\ gen[2].kind = "pages"
    /\ gen[2].pc = "done"
    /\ gen[2].began = 2
    /\ Len(calls[1]) = 2
    /\ out[2] = <<calls[1][2].outcome.response>>
    /\ out[2][1] # initial

\* C17: after a failed fetch of page k+1 the retained response is still page
\* k (lookups return its values) and the request's page_token is page k's
\* next_page_token; a sequence started after it yields page k first, and the
\* next call carries the same token again.
C17_StateAfterFailure ==
    /\ \A c \in Pagers : (calls[c] # <<>> /\ calls[c][Len(calls[c])].outcome.error) =>
        LET last == calls[c][Len(calls[c])] IN
        /\ _response[c] = last.retained
        /\ last.retained = RetainedAfter(c, Len(calls[c]) - 1)
        /\ __getattr__(c, "endpoints") = last.retained.endpoints
        /\ __getattr__(c, "next_page_token") = last.retained.next_page_token
        /\ heap[_request[c]].page_token = last.retained.next_page_token
    /\ \A g \in Begun :
        LET log == calls[gen[g].pager]
            n == gen[g].began IN
        (n >= 1 /\ log[n].outcome.error) =>
            /\ (gen[g].kind = "pages" /\ out[g] # <<>>) => out[g][1] = log[n].retained
            /\ Len(log) > n =>
                /\ log[n + 1].request.page_token = log[n].request.page_token
                /\ log[n + 1].retained = log[n].retained

\* the fetch of page 3 failed; a new page sequence yields page 2 and calls again
C17_Witness ==
    /\ gen[1].pc = "failed"
    /\ gen[2].kind = "pages"
    /\ gen[2].began = 2
    /\ Len(calls[1]) = 3
    /\ calls[1][2].outcome.error
    /\ out[2] = <<calls[1][1].outcome.response>>
    /\ out[2][1] # initial
    /\ calls[1][3].request.page_token = calls[1][2].request.page_token
    /\ gen[2].pc = "failed"

\* s is t with some elements left out, order kept
RECURSIVE IsSubseq(_, _)
IsSubseq(s, t) ==
    IF s = <<>> THEN TRUE
    ELSE IF t = <<>> THEN FALSE
    ELSE IF Head(s) = Head(t) THEN IsSubseq(Tail(s), Tail(t))
    ELSE IsSubseq(s, Tail(t))

Range(s) == {s[i] : i \in DOMAIN s}

\* the pages a page generator got from fetches of its own: all but its first
Fetched(g) == IF out[g] = <<>> THEN <<>> ELSE Tail(out[g])

\* the pages of the chain that some call has returned
PagesFetched(c) ==
    {calls[c][i].outcome.response : i \in {j \in DOMAIN calls[c] : ~calls[c][j].outcome.error}}

BothPages == gen[1].kind = "pages" /\ gen[2].kind = "pages"

\* C18 as stated: two page sequences of one pager over a chain of distinct
\* tokens that ends: every call carries the retained response's token, no
\* token is fetched twice, every fetched page is yielded to exactly one of the
\* two consumers, and each consumer sees an in-order subsequence of the chain.
C18_AsStated ==
    (BothPages /\ ChainEnd(initial, MaxCalls) = "done") =>
        /\ \A i \in DOMAIN calls[1] :
            calls[1][i].request.page_token = calls[1][i].retained.next_page_token
        /\ \A i, j \in DOMAIN calls[1] :
            i # j => calls[1][i].request.page_token # calls[1][j].request.page_token
        /\ \A p \in PagesFetched(1) :
            /\ p \in Range(out[1]) \cup Range(out[2])
            /\ ~(p \in Range(out[1]) /\ p \in Range(out[2]))
        /\ IsSubseq(out[1], Chain) /\ IsSubseq(out[2], Chain)

\* C18 (amended): two page sequences of one pager over a chain of distinct
\* tokens: every call carries the token of the response retained at that
\* moment; a token is fetched again only when its earlier fetch failed; a
\* fetched page is yielded by its fetch to exactly one consumer, and reaches
\* the other only as that consumer's first page, when it starts while the page
\* is the retained one; each consumer sees an in-order subsequence of the chain.
C18_TwoConsumers ==
    (BothPages /\ ChainEnd(initial, MaxCalls) # "more") =>
        /\ \A i \in DOMAIN calls[1] :
            /\ calls[1][i].request.page_token = calls[1][i].retained.next_page_token
            /\ calls[1][i].retained = RetainedAfter(1, i - 1)
        /\ \A i, j \in DOMAIN calls[1] :
            (i < j /\ calls[1][i].request.page_token = calls[1][j].request.page_token)
                => calls[1][i].outcome.error
        /\ Len(Fetched(1)) + Len(Fetched(2)) = Cardinality(PagesFetched(1))
        /\ Range(Fetched(1)) \cap Range(Fetched(2)) = {}
        /\ Range(Fetched(1)) \cup Range(Fetched(2)) = PagesFetched(1)
        /\ \A g \in Begun : out[g] # <<>> => out[g][1] = StartPage(g)
        /\ IsSubseq(out[1], Chain) /\ IsSubseq(out[2], Chain)

\* generator 1 got pages 1 and 3, generator 2 pages 1 and 2
C18_Witness ==
    /\ BothPages
    /\ ChainEnd(initial, MaxCalls) = "done"
    /\ Len(calls[1]) = 2
    /\ out[1] = <<initial, calls[1][2].outcome.response>>
    /\ out[2] = <<initial, calls[1][1].outcome.response>>

\* ------------------------------------------------------------- ListTrainingPipelinesPager
\* pipeline_service/pagers.py: the pager of list_training_pipelines.  Its
\* responses carry the items in `training_pipelines`.  Pager 2 is of this
\* class in SpecTwin; its list method serves the chain of `server`, the item
\* lists moved to the field of its own response type.
TPResponse(r) ==
    [training_pipelines |-> r.endpoints, next_page_token |-> r.next_page_token]

\* self._method(self._request) of the pipeline pager
TP_method(req) ==
    [error |-> server[req.page_token].error,
     response |-> TPResponse(server[req.page_token].response)]

TPNoResponse == [training_pipelines |-> <<>>, next_page_token |-> "<unset>"]

\* `while self._response.next_page_token`
TPHasNextPage(c) == _response[c].next_page_token # ""

\* the token written into self._request.page_token
TPNextToken(c) == _response[c].next_page_token

\* (bug) the items of a page come out last first
TPItemsReversed(page) == Reverse(page.training_pipelines)

\* page.training_pipelines
TPItemsOf(page) == page.training_pipelines

\* ListTrainingPipelinesPager.__init__(method, request, response)
TPConstruct(c) ==
    /\ running = 0
    /\ ~Constructed(c)
    /\ \A b \in Pagers : b < c => Constructed(b)
    /\ _request' = [_request EXCEPT ![c] = c]
    /\ heap' = [heap EXCEPT ![c] = heap[CallerRef]]
    /\ _response' = [_response EXCEPT ![c] = TPResponse(initial)]
    /\ ctor' = [ctor EXCEPT ![c] = heap[CallerRef]]
    /\ UNCHANGED <<tvars, server, initial, gen, running, out, asked, calls>>

\* pager.pages / iter(pager) of the pipeline pager: a new generator object
TPGetPages(c, g) ==
    /\ running = 0
    /\ Constructed(c)
    /\ gen[g].pc = "none"
    /\ gen' = [gen EXCEPT ![g] = [NoGen EXCEPT !.pager = c, !.kind = "pages", !.pc = "start",
                                               !.page = TPNoResponse]]
    /\ UNCHANGED <<tvars, server, initial, heap, _request, _response, running, out, asked, calls, ctor>>

TPGetIter(c, g) ==
    /\ running = 0
    /\ Constructed(c)
    /\ gen[g].pc = "none"
    /\ gen' = [gen EXCEPT ![g] = [NoGen EXCEPT !.pager = c, !.kind = "items", !.pc = "start",
                                               !.page = TPNoResponse]]
    /\ UNCHANGED <<tvars, server, initial, heap, _request, _response, running, out, asked, calls, ctor>>

\* one resumption of the body of ListTrainingPipelinesPager.pages
TPPagesResume(c, pc, resPc, resPage) ==
    IF pc \in {"start", "entered"}
    THEN \* yield self._response
        /\ resPc = "suspended"
        /\ resPage = _response[c]
        /\ UNCHANGED <<heap, _response, calls>>
    ELSE IF ~TPHasNextPage(c)
    THEN
        /\ resPc = "done"
        /\ resPage = TPNoResponse
        /\ UNCHANGED <<heap, _response, calls>>
    ELSE
        /\ Len(calls[c]) < MaxCalls
        /\ heap' = [heap EXCEPT ![_request[c]].page_token = TPNextToken(c)]
        /\ LET o == TP_method(heap'[_request[c]]) IN
            /\ calls' = [calls EXCEPT ![c] = Append(@,
                    [request |-> heap'[_request[c]], retained |-> _response[c], outcome |-> o])]
            /\ IF o.error
               THEN /\ resPc = "failed"
                    /\ resPage = TPNoResponse
                    /\ UNCHANGED _response
               ELSE /\ resPc = "suspended"
                    /\ resPage = o.response
                    /\ _response' = [_response EXCEPT ![c] = o.response]

TPPages == {TPResponse(r) : r \in Responses} \cup {TPNoResponse}

\* next() on a generator of ListTrainingPipelinesPager.pages
TPPageNext(g) ==
    /\ running = 0
    /\ gen[g].kind = "pages"
    /\ gen[g].pc \in {"start", "suspended"}
    /\ asked' = [asked EXCEPT ![g] = @ + 1]
    /\ \E resPc \in {"suspended", "done", "failed"}, resPage \in TPPages :
        /\ TPPagesResume(gen[g].pager, gen[g].pc, resPc, resPage)
        /\ gen' = [gen EXCEPT ![g].pc = resPc,
                              ![g].began = IF gen[g].pc = "start"
                                           THEN Len(calls[gen[g].pager]) ELSE @]
        /\ out' = [out EXCEPT ![g] = IF resPc = "suspended" THEN Append(@, resPage) ELSE @]
    /\ UNCHANGED <<tvars, server, initial, _request, running, ctor>>

\* next() on a generator of ListTrainingPipelinesPager.__iter__
TPItemNext(g) ==
    /\ running = 0
    /\ gen[g].kind = "items"
    /\ gen[g].pc \in {"start", "suspended"}
    /\ asked' = [asked EXCEPT ![g] = @ + 1]
    /\ running' = g
    /\ gen' = [gen EXCEPT ![g].pc = IF @ = "start" THEN "entered" ELSE "running",
                          ![g].began = IF gen[g].pc = "start"
                                       THEN Len(calls[gen[g].pager]) ELSE @]
    /\ UNCHANGED <<tvars, server, initial, heap, _request, _response, out, calls, ctor>>

\* one turn of `for page in self.pages: yield from page.training_pipelines`
TPItemStep(g) ==
    /\ running = g
    /\ IF gen[g].pc = "running" /\ gen[g].idx < Len(TPItemsOf(gen[g].page))
       THEN /\ out' = [out EXCEPT ![g] = Append(@, TPItemsOf(gen[g].page)[gen[g].idx + 1])]
            /\ gen' = [gen EXCEPT ![g].idx = @ + 1, ![g].pc = "suspended"]
            /\ running' = 0
            /\ UNCHANGED <<heap, _response, calls>>
       ELSE \E resPc \in {"suspended", "done", "failed"}, resPage \in TPPages :
                /\ TPPagesResume(gen[g].pager, gen[g].pc, resPc, resPage)
                /\ gen' = [gen EXCEPT ![g].pc = IF resPc = "suspended" THEN "running" ELSE resPc,
                                      ![g].page = resPage,
                                      ![g].idx = 0]
                /\ running' = IF resPc = "suspended" THEN g ELSE 0
                /\ UNCHANGED out
    /\ UNCHANGED <<tvars, server, initial, _request, asked, ctor>>

\* a ListEndpointsPager (pager 1, generator 1) and a ListTrainingPipelinesPager
\* (pager 2, generator 2) over the same chain, steps interleaved in any order
NextTwin ==
    \/ Construct(1)
    \/ GetPages(1, 1)
    \/ GetIter(1, 1)
    \/ PageNext(1)
    \/ ItemNext(1)
    \/ ItemStep(1)
    \/ TPConstruct(2)
    \/ TPGetPages(2, 2)
    \/ TPGetIter(2, 2)
    \/ TPPageNext(2)
    \/ TPItemNext(2)
    \/ TPItemStep(2)

SpecTwin == Init /\ [][NextTwin]_vars

\* an outcome of the endpoint method and one of the pipeline method agree
SameOutcome(o, t) ==
    /\ o.error = t.error
    /\ o.response.endpoints = t.response.training_pipelines
    /\ o.response.next_page_token = t.response.next_page_token

\* C20: the two pagers over the same chain of tokens and item lists, stepped
\* side by side by the same kind of generator: after the same number of
\* next() calls they have made the same calls with the same requests, got
\* the same outcomes, yielded the same pages (same items, same tokens) or the
\* same items, stand at the same place in the same page and have ended or
\* failed alike.
C20_SamePager ==
    (/\ gen[1].kind # "none"
     /\ gen[1].kind = gen[2].kind
     /\ asked[1] = asked[2]
     /\ running = 0) =>
        /\ Len(calls[1]) = Len(calls[2])
        /\ \A i \in DOMAIN calls[1] :
            /\ i \in DOMAIN calls[2]
            /\ calls[1][i].request = calls[2][i].request
            /\ SameOutcome(calls[1][i].outcome, calls[2][i].outcome)
        /\ gen[1].pc = gen[2].pc
        /\ gen[1].idx = gen[2].idx
        /\ gen[1].page.next_page_token = gen[2].page.next_page_token
        /\ Len(out[1]) = Len(out[2])
        /\ gen[1].kind = "items" => out[1] = out[2]
        /\ gen[1].kind = "pages" => \A i \in DOMAIN out[1] :
            /\ i \in DOMAIN out[2]
            /\ out[1][i].endpoints = out[2][i].training_pipelines
            /\ out[1][i].next_page_token = out[2][i].next_page_token

\* both item sequences at their end after three pages
C20_Witness ==
    /\ gen[1].kind = "items" /\ gen[2].kind = "items"
    /\ gen[1].pc = "done" /\ gen[2].pc = "done"
    /\ Len(calls[1]) = 2 /\ Len(calls[2]) = 2
    /\ Len(out[1]) >= 3
    /\ out[1] = out[2]

\* ------------------------------------------------------------- EndpointServiceGrpcTransport
\* None is falsy, a channel object is truthy
Truthy(channel) == channel # NoChannel

\* the credentials the base constructor is called with
BaseCredentials(credentials, channel) ==
    IF Truthy(channel) THEN "False" ELSE credentials

InitialChannelDropped(channel) == NoChannel

\* _grpc_channel after the constructor: set only for a supplied channel
InitialChannel(channel) ==
    IF Truthy(channel) THEN channel ELSE NoChannel

\* EndpointServiceGrpcTransport(host=..., credentials=..., channel=...)
TransportInit(host, credentials, channel) ==
    /\ ~args.built
    /\ args' = [built |-> TRUE, host |-> host, credentials |-> credentials,
                channel |-> channel]
    /\ base' = [host |-> host, credentials |-> BaseCredentials(credentials, channel)]
    /\ _stubs' = [m \in Methods |-> NoStub]
    /\ _grpc_channel' = InitialChannel(channel)
    /\ UNCHANGED <<operations_client, created, unary, channels, stubsSeen, hits>>
    /\ UNCHANGED <<server, initial, heap, _request, _response, gen, running, out,
                   asked, calls, ctor>>

\* the channel the helper returns: a new object on every call
create_channel == [origin |-> "created", n |-> Len(created) + 1]

HasChannelNever == FALSE

\* hasattr(self, "_grpc_channel")
HasChannel == _grpc_channel # NoChannel

\* one evaluation of self.grpc_channel; its value is _grpc_channel'
EvalGrpcChannel ==
    /\ IF HasChannel
       THEN UNCHANGED <<_grpc_channel, created>>
       ELSE /\ Len(created) < MaxObjects
            /\ _grpc_channel' = create_channel
            /\ created' = Append(created, create_channel)
    /\ channels' = channels \cup {_grpc_channel'}

ChannelHits == IF HasChannel THEN {"grpc_channel"} ELSE {}

\* transport.grpc_channel
GrpcChannel ==
    /\ args.built
    /\ EvalGrpcChannel
    /\ hits' = hits \cup ChannelHits
    /\ UNCHANGED <<args, base, _stubs, operations_client, unary, stubsSeen>>
    /\ UNCHANGED <<server, initial, heap, _request, _response, gen, running, out,
                   asked, calls, ctor>>

\* "operations_client" in self.__dict__
HasClient == operations_client # NoClient

\* transport.operations_client
OperationsClient ==
    /\ args.built
    /\ IF HasClient
       THEN /\ hits' = hits \cup {"operations_client"}
            /\ UNCHANGED <<operations_client, _grpc_channel, created, channels>>
       ELSE /\ EvalGrpcChannel
            /\ operations_client' = [channel |-> _grpc_channel']
            /\ hits' = hits \cup ChannelHits
    /\ UNCHANGED <<args, base, _stubs, unary, stubsSeen>>
    /\ UNCHANGED <<server, initial, heap, _request, _response, gen, running, out,
                   asked, calls, ctor>>

\* the RPC path each property passes to unary_unary
Path(m) ==
    CASE m = "create_endpoint" ->
             "/google.cloud.aiplatform.v1beta1.EndpointService/CreateEndpoint"
      [] m = "get_endpoint" ->
             "/google.cloud.aiplatform.v1beta1.EndpointService/GetEndpoint"
      [] m = "list_endpoints" ->
             "/google.cloud.aiplatform.v1beta1.EndpointService/ListEndpoints"
      [] m = "update_endpoint" ->
             "/google.cloud.aiplatform.v1beta1.EndpointService/UpdateEndpoint"
      [] m = "delete_endpoint" ->
             "/google.cloud.aiplatform.v1beta1.EndpointService/DeleteEndpoint"
      [] m = "deploy_model" ->
             "/google.cloud.aiplatform.v1beta1.EndpointService/DeployModel"
      [] m = "undeploy_model" ->
             "/google.cloud.aiplatform.v1beta1.EndpointService/UndeployModel"

\* the unary_unary calls made for one property
UnaryFor(m) == {u \in unary : u.property = m}

HasStubNever(m) == FALSE

\* "<m>" in self._stubs
HasStub(m) == _stubs[m] # NoStub

\* transport.<m>, one of the seven RPC properties
StubProperty(m) ==
    /\ args.built
    /\ IF HasStub(m)
       THEN /\ hits' = hits \cup {m}
            /\ UNCHANGED <<_stubs, unary, _grpc_channel, created, channels>>
       ELSE /\ Cardinality(UnaryFor(m)) < MaxObjects
            /\ EvalGrpcChannel
            /\ unary' = unary \cup {[property |-> m, channel |-> _grpc_channel',
                                     path |-> Path(m),
                                     n |-> Cardinality(UnaryFor(m)) + 1]}
            /\ _stubs' = [_stubs EXCEPT ![m] =
                             [path |-> Path(m), channel |-> _grpc_channel',
                              n |-> Cardinality(UnaryFor(m)) + 1]]
            /\ hits' = hits \cup ChannelHits
    /\ stubsSeen' = [stubsSeen EXCEPT ![m] = @ \cup {_stubs'[m]}]
    /\ UNCHANGED <<args, base, operations_client>>
    /\ UNCHANGED <<server, initial, heap, _request, _response, gen, running, out,
                   asked, calls, ctor>>

\* a transport alone: no pager is built, the server has one empty page
InitTransport ==
    /\ server = [t \in Tokens \cup {""} |->
                    [error |-> FALSE,
                     response |-> [endpoints |-> <<>>, next_page_token |-> ""]]]
    /\ initial = [endpoints |-> <<>>, next_page_token |-> ""]
    /\ NoPagerYet
    /\ NoTransportYet

NextTransport ==
    \/ \E host \in Hosts, credentials \in Credentials,
          channel \in {NoChannel, SuppliedChannel} :
            TransportInit(host, credentials, channel)
    \/ GrpcChannel
    \/ OperationsClient
    \/ \E m \in Methods : StubProperty(m)

SpecTransport == InitTransport /\ [][NextTransport]_vars

\* C11: on a transport built without a channel, whatever properties are
\* accessed, create_channel has run at most once, every evaluation of
\* grpc_channel (direct, from a stub property, from operations_client) returned
\* the one channel it made, and that channel is the one cached and the one every
\* stub and the operations client were built on.
C11_ChannelCache ==
    (args.built /\ ~Truthy(args.channel)) =>
        /\ Len(created) <= 1
        /\ Cardinality(channels) <= 1
        /\ channels = Range(created)
        /\ _grpc_channel \in channels \cup {NoChannel}
        /\ (_grpc_channel = NoChannel) = (created = <<>>)
        /\ \A u \in unary : u.channel \in channels
        /\ \A m \in Methods : HasStub(m) => _stubs[m].channel \in channels
        /\ HasClient => operations_client.channel \in channels

C11_Witness ==
    /\ args.built /\ ~Truthy(args.channel)
    /\ Len(created) = 1
    /\ "grpc_channel" \in hits
    /\ HasClient
    /\ Cardinality({m \in Methods : HasStub(m)}) >= 2

\* C12: on a transport built with a channel, the base constructor was given
\* False as credentials whatever the caller passed, create_channel never runs,
\* and every evaluation of grpc_channel returned the supplied channel, which is
\* also the channel of every stub and of the operations client.
C12_ExplicitChannel ==
    (args.built /\ Truthy(args.channel)) =>
        /\ base.credentials = "False"
        /\ created = <<>>
        /\ _grpc_channel = args.channel
        /\ channels \subseteq {args.channel}
        /\ \A u \in unary : u.channel = args.channel
        /\ \A m \in Methods : HasStub(m) => _stubs[m].channel = args.channel
        /\ HasClient => operations_client.channel = args.channel

C12_Witness ==
    /\ args.built /\ args.channel = SuppliedChannel
    /\ args.credentials = "creds"
    /\ channels = {SuppliedChannel}
    /\ "grpc_channel" \in hits
    /\ HasClient
    /\ HasStub("deploy_model")

\* the RPC name of each property, written out independently of the transport
RpcName(m) ==
    CASE m = "create_endpoint" -> "CreateEndpoint"
      [] m = "get_endpoint" -> "GetEndpoint"
      [] m = "list_endpoints" -> "ListEndpoints"
      [] m = "update_endpoint" -> "UpdateEndpoint"
      [] m = "delete_endpoint" -> "DeleteEndpoint"
      [] m = "deploy_model" -> "DeployModel"
      [] m = "undeploy_model" -> "UndeployModel"

\* C19: for each of the seven RPC properties, unary_unary has been called at
\* most once for it, every access returned the one cached stub, a stub exists
\* only for a property that was accessed, and each stub and each unary_unary
\* call carries the RPC path of its own method.
C19_StubCache ==
    /\ \A m \in Methods :
        /\ Cardinality(UnaryFor(m)) <= 1
        /\ Cardinality(stubsSeen[m]) <= 1
        /\ stubsSeen[m] \subseteq {_stubs[m]}
        /\ HasStub(m) = (stubsSeen[m] # {})
        /\ HasStub(m) = (UnaryFor(m) # {})
        /\ HasStub(m) =>
              /\ _stubs[m].path =
                    "/google.cloud.aiplatform.v1beta1.EndpointService/" \o RpcName(m)
              /\ \A k \in Methods \ {m} : _stubs[k] # _stubs[m]
    /\ \A u \in unary :
          u.path = "/google.cloud.aiplatform.v1beta1.EndpointService/" \o RpcName(u.property)
    /\ Cardinality(unary) = Cardinality({m \in Methods : stubsSeen[m] # {}})

C19_Witness ==
    /\ \A m \in Methods : HasStub(m)
    /\ Cardinality(unary) = Cardinality(Methods)
    /\ {"create_endpoint", "list_endpoints", "undeploy_model"} \subseteq hits
    /\ \E m \in Methods : ~(m \in hits)
====
